---- MODULE Spec2Model ----
(***************************************************************************)
(* Queueing-facility simulator (src/queue_model/simulate.py):              *)
(* Hospital.simulate, Bed, find_avg_wait_time and find_number_of_booths.   *)
(*                                                                         *)
(* Times are minutes, kept as integers.  An average wait is kept exactly,  *)
(* as a multiple of 1/AvgScale minute (AvgScale is divisible by every      *)
(* possible list length).  The random source is a fixed table `source`     *)
(* (seed -> stream of draws) read through the cursor `rng`.                *)
(***************************************************************************)
EXTENDS Integers, Sequences, FiniteSets, TLC

\* ------------------------------------------------------------------ bounds
MaxVoters == 3   \* num_voters of the hospital dictionary ranges over 0..MaxVoters
MaxBooths == 2   \* num_booths / max_num_beds range over 0..MaxBooths
MaxHours  == 1   \* hours_open ranges over 0..MaxHours
MaxTrials == 2   \* ntrials ranges over 0..MaxTrials
MaxSeed   == 1   \* seed arguments range over 0..MaxSeed
MaxSalt   == 3   \* number of tabulated random sources, less one

RunGaps == {0, 30, 90}   \* inter-arrival gaps of the exhaustive random sources
RunDurs == {0, 30}       \* voting durations of the exhaustive random sources
Targets == {0, 10, 200}  \* target_wait_time arguments (minutes)

NoneVal == -1            \* Python's None in a numeric slot (times are >= 0)

VARIABLES
    hospital,       \* the precinct dictionary / Hospital object (fixed for a behaviour)
    source,         \* the random source: seed -> cyclic stream of <<gap, duration>>
    rng,            \* state of the process-wide generator: [seed, pos] or unseeded
    pc,             \* current program location
    entry,          \* the function the client called
    err,            \* the exception being raised, "none" if none
    result,         \* value returned to the client
    \* --- Hospital.simulate
    seed, num_booths, voter_list, base_voter, all_booths, i, new_voter,
    min_departure_time,
    generated,      \* history: every voter generated by the current run, finalized
    \* --- find_avg_wait_time
    num_beds, ntrials, initial_seed, trial, trial_averages, patient_list,
    seed0,          \* history: the initial_seed argument as passed
    trial_seeds,    \* history: the seed each trial's run reseeded the generator to
    trial_lists,    \* history: the list each trial's run returned
    \* --- find_number_of_booths
    target_wait_time, max_num_beds, fb_ntrials, fb_seed, fb_num_beds, avg_wait_time,
    tried,          \* history: the find_avg_wait_time call made at each level and its value
    \* --- observer
    first_run       \* history: arguments and result of the first completed simulate run

simVars == <<seed, num_booths, voter_list, base_voter, all_booths, i, new_voter,
             min_departure_time, generated>>
faVars  == <<num_beds, ntrials, initial_seed, trial, trial_averages, patient_list,
             seed0, trial_seeds, trial_lists>>
fbVars  == <<target_wait_time, max_num_beds, fb_ntrials, fb_seed, fb_num_beds,
             avg_wait_time, tried>>
vars == <<hospital, source, rng, pc, entry, err, result, simVars, faVars, fbVars,
          first_run>>

\* ------------------------------------------------------------------ helpers
RECURSIVE Factorial(_)
Factorial(n) == IF n <= 1 THEN 1 ELSE n * Factorial(n - 1)

\* Unit of an average: averages are stored as (sum * AvgScale) / len, exactly.
AvgScale == Factorial(MaxVoters)

RECURSIVE SumSeq(_)
SumSeq(s) == IF s = <<>> THEN 0 ELSE Head(s) + SumSeq(Tail(s))

\* Patient.__init__
Patient(arrival_time, voting_duration) ==
    [arrival_time |-> arrival_time, voting_duration |-> voting_duration,
     start_time |-> NoneVal, departure_time |-> NoneVal]

\* The operating window in minutes (hours_open * 60)
Window(h) == h.hours_open * 60

\* a pool built without its capacity
BedUnbounded(maxsize) == [maxsize |-> 0, items |-> <<>>]

\* ------------------------------------------------------------------ Bed
\* A Bed wraps queue.PriorityQueue(maxsize): the multiset of priorities, kept
\* here as an ascending sequence, and maxsize (<= 0 means unbounded).
Bed(maxsize) == [maxsize |-> maxsize, items |-> <<>>]

\* a fullness test that answers "full" one entry early
CheckFullEarly(b) == 0 < b.maxsize /\ b.maxsize <= Len(b.items) + 1

\* PriorityQueue.full(): 0 < maxsize <= qsize
check_full(b) == 0 < b.maxsize /\ b.maxsize <= Len(b.items)

RECURSIVE Insert(_, _)
Insert(s, x) ==
    IF s = <<>> THEN <<x>>
    ELSE IF x <= Head(s) THEN <<x>> \o s
    ELSE <<Head(s)>> \o Insert(Tail(s), x)

\* put(voter_dep, block=False): raises queue.Full when the queue is full
add_voter_dep(b, voter_dep) ==
    IF check_full(b)
    THEN [raised |-> "Full", bed |-> b]
    ELSE [raised |-> "none", bed |-> [b EXCEPT !.items = Insert(b.items, voter_dep)]]

\* a get that takes the latest pending departure out instead of the earliest
GetRemoveNewest(b) ==
    IF b.items = <<>>
    THEN [raised |-> "Empty", bed |-> b, value |-> NoneVal]
    ELSE [raised |-> "none",
          bed |-> [b EXCEPT !.items = SubSeq(b.items, 1, Len(b.items) - 1)],
          value |-> b.items[Len(b.items)]]

\* a get that reads the earliest pending departure and leaves it in the queue
GetWithoutRemove(b) ==
    IF b.items = <<>>
    THEN [raised |-> "Empty", bed |-> b, value |-> NoneVal]
    ELSE [raised |-> "none", bed |-> b, value |-> Head(b.items)]

\* get(block=False): raises queue.Empty when the queue is empty, else pops the minimum
get_remove_voter_dep(b) ==
    IF b.items = <<>>
    THEN [raised |-> "Empty", bed |-> b, value |-> NoneVal]
    ELSE [raised |-> "none", bed |-> [b EXCEPT !.items = Tail(b.items)],
          value |-> Head(b.items)]

\* ------------------------------------------------------------------ random source
Unseeded == [seed |-> NoneVal, pos |-> 0]

\* a reseeding that leaves an already seeded generator where it is
RandomSeedStale(s) == IF rng.seed = NoneVal THEN [seed |-> s, pos |-> 0] ELSE rng

\* random.seed(s): the generator restarts the stream of seed s
RandomSeed(s) == [seed |-> s, pos |-> 0]

\* util.gen_poisson_voter_parameters: the next <<gap, voting_duration>> of the stream
GenPoissonVoterParameters(g) ==
    source[g.seed][(g.pos % Len(source[g.seed])) + 1]

Advance(g) == [g EXCEPT !.pos = (g.pos + 1) % Len(source[g.seed])]

\* a next voter whose arrival time is the gap alone, not added to the previous one
NextVoterFromZero(prev_voter, g) ==
    LET p == GenPoissonVoterParameters(g)
    IN  Patient(p[1], p[2])

\* Hospital.next_voter
next_voter(prev_voter, g) ==
    LET p == GenPoissonVoterParameters(g)
    IN  Patient(prev_voter.arrival_time + p[1], p[2])

\* A tabulated pseudo-random source: a linear congruential generator whose
\* increment and starting point depend on the table number `salt`.
RECURSIVE Lcg(_, _, _)
Lcg(salt, s, k) ==
    IF k = 0 THEN (s * 11 + salt * 9) % 64
    ELSE (13 * Lcg(salt, s, k - 1) + 2 * salt + 1) % 64

GapSeq == <<0, 30, 90>>
DurSeq == <<0, 30, 100>>

Draw(x) == LET idx == (x \div 7) % 9
           IN  <<GapSeq[(idx \div 3) + 1], DurSeq[(idx % 3) + 1]>>

AllSeeds == 0..(MaxSeed + MaxTrials)
StreamLen == MaxVoters + 1

Table(salt) == [s \in AllSeeds |-> [k \in 1..StreamLen |-> Draw(Lcg(salt, s, k))]]

\* ------------------------------------------------------------------ client
Idle == pc = "idle"

Finished == pc \in {"done", "raised"}

\* an exception propagates to the client: every frame is abandoned
Raise(e) == /\ pc' = "raised"
            /\ err' = e
            /\ result' = NoneVal

Hospitals == [hours_open : 0..MaxHours, max_num_voters : 0..MaxVoters]

\* everything but the hospital and the random source
InitFrames ==
    /\ rng = Unseeded
    /\ pc = "idle" /\ entry = "none" /\ err = "none" /\ result = NoneVal
    /\ seed = 0 /\ num_booths = 0 /\ voter_list = <<>> /\ base_voter = Patient(0, 0)
    /\ all_booths = Bed(0) /\ i = 0 /\ new_voter = Patient(0, 0)
    /\ min_departure_time = NoneVal /\ generated = <<>>
    /\ num_beds = 0 /\ ntrials = 0 /\ initial_seed = 0 /\ trial = 0
    /\ trial_averages = <<>> /\ patient_list = <<>>
    /\ seed0 = 0 /\ trial_seeds = <<>> /\ trial_lists = <<>>
    /\ target_wait_time = 0 /\ max_num_beds = 0 /\ fb_ntrials = 0 /\ fb_seed = 0
    /\ fb_num_beds = 0 /\ avg_wait_time = NoneVal /\ tried = <<>>
    /\ first_run = <<>>

\* the random source is one of the tabulated generators
Init ==
    /\ hospital \in Hospitals
    /\ \E salt \in 0..MaxSalt : source = Table(salt)
    /\ InitFrames

\* the random source is any stream for seed 0, as long as the run consumes
InitRun ==
    /\ hospital \in Hospitals
    /\ source \in [{0} -> [1..(IF hospital.max_num_voters = 0 THEN 1
                               ELSE hospital.max_num_voters)
                            -> RunGaps \X RunDurs]]
    /\ InitFrames

\* The locals of a function that is not running hold nothing.
SimBlank ==
    /\ seed' = 0 /\ num_booths' = 0 /\ voter_list' = <<>> /\ base_voter' = Patient(0, 0)
    /\ all_booths' = Bed(0) /\ i' = 0 /\ new_voter' = Patient(0, 0)
    /\ min_departure_time' = NoneVal /\ generated' = <<>>

FaBlank ==
    /\ num_beds' = 0 /\ ntrials' = 0 /\ initial_seed' = 0 /\ trial' = 0
    /\ trial_averages' = <<>> /\ patient_list' = <<>>
    /\ seed0' = 0 /\ trial_seeds' = <<>> /\ trial_lists' = <<>>

FbBlank ==
    /\ target_wait_time' = 0 /\ max_num_beds' = 0 /\ fb_ntrials' = 0 /\ fb_seed' = 0
    /\ fb_num_beds' = 0 /\ avg_wait_time' = NoneVal /\ tried' = <<>>

\* ------------------------------------------------------------------ Hospital.simulate
\* lines 90-102: reseed, fresh voter_list, base voter and booths
SimulateEnter(s, nb) ==
    /\ seed' = s
    /\ num_booths' = nb
    /\ rng' = RandomSeed(s)
    /\ voter_list' = <<>>
    /\ base_voter' = Patient(0, 0)
    /\ all_booths' = Bed(nb)
    /\ i' = 0
    /\ generated' = <<>>
    /\ pc' = "sim_loop"
    /\ UNCHANGED <<new_voter, min_departure_time>>

\* the client calls Hospital.simulate(seed, num_booths)
CallSimulate ==
    /\ Idle
    /\ \E s \in (0..MaxSeed) \cap DOMAIN source, nb \in 0..MaxBooths :
          SimulateEnter(s, nb)
    /\ entry' = "simulate" /\ err' = "none" /\ result' = NoneVal
    /\ UNCHANGED <<hospital, source, faVars, fbVars, first_run>>

\* a loop that also stops once a voter has arrived after closing time
LoopStopsAtClosing ==
    i < hospital.max_num_voters /\ base_voter.arrival_time <= Window(hospital)

\* line 104: range(self.max_num_voters) has another value
LoopContinues == i < hospital.max_num_voters

\* lines 104-105: one more iteration, generate the next voter
SimGenerate ==
    /\ pc = "sim_loop"
    /\ LoopContinues
    /\ new_voter' = next_voter(base_voter, rng)
    /\ rng' = Advance(rng)
    /\ pc' = "sim_check"
    /\ UNCHANGED <<hospital, source, entry, err, result, seed, num_booths, voter_list,
                   base_voter, all_booths, i, min_departure_time, generated,
                   faVars, fbVars, first_run>>

\* lines 108-112: the booths are not full
SimNotFull ==
    /\ pc = "sim_check"
    /\ ~check_full(all_booths)
    /\ LET v == [new_voter EXCEPT
                   !.start_time = new_voter.arrival_time,
                   !.departure_time = new_voter.arrival_time + new_voter.voting_duration]
           r == add_voter_dep(all_booths, v.departure_time)
       IN  /\ new_voter' = v
           /\ all_booths' = r.bed
           /\ IF r.raised = "none"
              THEN pc' = "sim_record" /\ UNCHANGED <<err, result>>
              ELSE Raise(r.raised)
    /\ UNCHANGED <<hospital, source, rng, entry, seed, num_booths, voter_list,
                   base_voter, i, min_departure_time, generated,
                   faVars, fbVars, first_run>>

\* lines 115-118: the booths are full, take the earliest departure out
SimRemove ==
    /\ pc = "sim_check"
    /\ check_full(all_booths)
    /\ LET r == get_remove_voter_dep(all_booths)
       IN  /\ all_booths' = r.bed
           /\ min_departure_time' = r.value
           /\ IF r.raised = "none"
              THEN pc' = "sim_full" /\ UNCHANGED <<err, result>>
              ELSE Raise(r.raised)
    /\ UNCHANGED <<hospital, source, rng, entry, seed, num_booths, voter_list,
                   base_voter, i, new_voter, generated, faVars, fbVars, first_run>>

\* a start of service that is always the freed booth's departure time
StartAtMinDeparture(arrival_time, min_dep) == min_dep

\* a start of service that never waits for a booth
StartOnArrival(arrival_time, min_dep) == arrival_time

\* lines 122-125: start of service of a voter who found the booths full
StartWhenFull(arrival_time, min_dep) ==
    IF arrival_time > min_dep THEN arrival_time ELSE min_dep

\* a full branch that computes the departure from the arrival, not from the start
SimFullAssignDepartFromArrival ==
    /\ pc = "sim_full"
    /\ LET st == StartWhenFull(new_voter.arrival_time, min_departure_time)
           v == [new_voter EXCEPT
                   !.start_time = st,
                   !.departure_time = new_voter.arrival_time + new_voter.voting_duration]
           r == add_voter_dep(all_booths, v.departure_time)
       IN  /\ new_voter' = v
           /\ all_booths' = r.bed
           /\ IF r.raised = "none"
              THEN pc' = "sim_record" /\ UNCHANGED <<err, result>>
              ELSE Raise(r.raised)
    /\ UNCHANGED <<hospital, source, rng, entry, seed, num_booths, voter_list,
                   base_voter, i, min_departure_time, generated,
                   faVars, fbVars, first_run>>

\* lines 122-129: assign start and departure, put the departure in the booths
SimFullAssign ==
    /\ pc = "sim_full"
    /\ LET st == StartWhenFull(new_voter.arrival_time, min_departure_time)
           v == [new_voter EXCEPT
                   !.start_time = st,
                   !.departure_time = st + new_voter.voting_duration]
           r == add_voter_dep(all_booths, v.departure_time)
       IN  /\ new_voter' = v
           /\ all_booths' = r.bed
           /\ IF r.raised = "none"
              THEN pc' = "sim_record" /\ UNCHANGED <<err, result>>
              ELSE Raise(r.raised)
    /\ UNCHANGED <<hospital, source, rng, entry, seed, num_booths, voter_list,
                   base_voter, i, min_departure_time, generated,
                   faVars, fbVars, first_run>>

\* a window that is closed at the closing minute itself
InWindowStrict(v, h) == v.arrival_time < Window(h)

\* line 132: the voter arrived while the precinct was open
InWindow(v, h) == v.arrival_time <= Window(h)

\* lines 132-137: record the voter if in the window, make it the base voter
SimRecord ==
    /\ pc = "sim_record"
    /\ voter_list' = IF InWindow(new_voter, hospital)
                     THEN Append(voter_list, new_voter) ELSE voter_list
    /\ base_voter' = new_voter
    /\ generated' = Append(generated, new_voter)
    /\ i' = i + 1
    /\ pc' = "sim_loop"
    /\ UNCHANGED <<hospital, source, rng, entry, err, result, seed, num_booths,
                   all_booths, new_voter, min_departure_time, faVars, fbVars, first_run>>

\* line 139: the loop is over, return voter_list to the caller
SimReturn ==
    /\ pc = "sim_loop"
    /\ ~LoopContinues
    /\ first_run' = IF first_run = <<>>
                    THEN <<[seed |-> seed, num_booths |-> num_booths,
                            voter_list |-> voter_list]>>
                    ELSE first_run
    /\ IF entry = "simulate"
       THEN /\ result' = voter_list
            /\ pc' = "done"
            /\ UNCHANGED patient_list
       ELSE /\ patient_list' = voter_list
            /\ pc' = "fa_avg"
            /\ UNCHANGED result
    /\ UNCHANGED <<hospital, source, rng, entry, err, simVars,
                   num_beds, ntrials, initial_seed, trial, trial_averages,
                   seed0, trial_seeds, trial_lists, fbVars>>

\* ------------------------------------------------------------------ find_avg_wait_time
\* the time from arrival to departure instead of the time to the start
TimeInSystem(v) == v.departure_time - v.arrival_time

\* lines 225-226: sum of the waits divided by the number of voters (len > 0)
Wait(v) == v.start_time - v.arrival_time

Waits(l) == [k \in 1..Len(l) |-> Wait(l[k])]

\* an average that is zero when there is no voter
AverageOrZero(l) ==
    IF Len(l) = 0
    THEN [raised |-> "none", value |-> 0]
    ELSE [raised |-> "none", value |-> (SumSeq(Waits(l)) * AvgScale) \div Len(l)]

AverageOneTrial(l) ==
    IF Len(l) = 0
    THEN [raised |-> "ZeroDivisionError", value |-> NoneVal]
    ELSE [raised |-> "none", value |-> (SumSeq(Waits(l)) * AvgScale) \div Len(l)]

\* a trial loop that never moves to the next seed
NextSeedSame(s) == s

\* line 231: the seed of the next trial
NextSeed(s) == s + 1

\* sorted(): ascending
RECURSIVE Sorted(_)
Sorted(s) == IF s = <<>> THEN <<>> ELSE Insert(Sorted(Tail(s)), Head(s))

\* the lower-middle position
MedianIndexLower(n) == (n - 1) \div 2

\* line 235: position of the median in the sorted list (0-based)
MedianIndex(n) == n \div 2

\* lines 217-222: build the Hospital object, empty list of trial averages
FindAvgEnter(nb, n, s) ==
    /\ num_beds' = nb
    /\ ntrials' = n
    /\ initial_seed' = s
    /\ seed0' = s
    /\ trial' = 0
    /\ trial_averages' = <<>>
    /\ trial_seeds' = <<>>
    /\ trial_lists' = <<>>
    /\ patient_list' = <<>>
    /\ pc' = "fa_loop"

\* the client calls find_avg_wait_time(hospital, num_beds, ntrials, initial_seed)
CallFindAvg ==
    /\ Idle
    /\ \E nb \in 0..MaxBooths, n \in 0..MaxTrials, s \in 0..MaxSeed :
          FindAvgEnter(nb, n, s)
    /\ entry' = "find_avg_wait_time" /\ err' = "none" /\ result' = NoneVal
    /\ UNCHANGED <<hospital, source, rng, simVars, fbVars, first_run>>

\* lines 223-224: one more trial, run the simulation with the current seed
FaTrial ==
    /\ pc = "fa_loop"
    /\ trial < ntrials
    /\ SimulateEnter(initial_seed, num_beds)
    /\ UNCHANGED <<hospital, source, entry, err, result, faVars, fbVars, first_run>>

\* lines 225-231: the trial's average wait, then the next seed
FaAverage ==
    /\ pc = "fa_avg"
    /\ trial_seeds' = Append(trial_seeds, rng.seed)
    /\ trial_lists' = Append(trial_lists, patient_list)
    /\ IF AverageOneTrial(patient_list).raised # "none"
       THEN /\ Raise(AverageOneTrial(patient_list).raised)
            /\ UNCHANGED <<trial_averages, initial_seed, trial>>
       ELSE /\ trial_averages' = Append(trial_averages,
                                        AverageOneTrial(patient_list).value)
            /\ initial_seed' = NextSeed(initial_seed)
            /\ trial' = trial + 1
            /\ pc' = "fa_loop"
            /\ UNCHANGED <<err, result>>
    /\ UNCHANGED <<hospital, source, rng, entry, simVars, num_beds, ntrials,
                   patient_list, seed0, fbVars, first_run>>

\* line 233: sort the trial averages
FaSort ==
    /\ pc = "fa_loop"
    /\ trial >= ntrials
    /\ trial_averages' = Sorted(trial_averages)
    /\ pc' = "fa_return"
    /\ UNCHANGED <<hospital, source, rng, entry, err, result, simVars, num_beds,
                   ntrials, initial_seed, trial, patient_list, seed0, trial_seeds,
                   trial_lists, fbVars, first_run>>

\* line 235: return the median trial average (IndexError on an empty list)
FaReturn ==
    /\ pc = "fa_return"
    /\ IF MedianIndex(ntrials) + 1 \notin DOMAIN trial_averages
       THEN /\ Raise("IndexError")
            /\ UNCHANGED avg_wait_time
       ELSE IF entry = "find_avg_wait_time"
       THEN /\ result' = trial_averages[MedianIndex(ntrials) + 1]
            /\ pc' = "done"
            /\ UNCHANGED <<err, avg_wait_time>>
       ELSE /\ avg_wait_time' = trial_averages[MedianIndex(ntrials) + 1]
            /\ pc' = "fb_test"
            /\ UNCHANGED <<err, result>>
    /\ UNCHANGED <<hospital, source, rng, entry, simVars, faVars,
                   target_wait_time, max_num_beds, fb_ntrials, fb_seed, fb_num_beds,
                   tried, first_run>>

\* ------------------------------------------------------------------ find_number_of_booths
\* a comparison that also accepts a wait equal to the target
MeetsTargetOrEqual(avg, target) == avg <= target * AvgScale

\* line 266: the level meets the target (target in minutes, average in 1/AvgScale)
MeetsTarget(avg, target) == avg < target * AvgScale

\* the client calls find_number_of_booths(hospital, target, max_num_beds, ntrials, seed)
CallFindBooths ==
    /\ Idle
    /\ \E t \in Targets, m \in 0..MaxBooths, n \in 0..MaxTrials, s \in 0..MaxSeed :
          /\ target_wait_time' = t
          /\ max_num_beds' = m
          /\ fb_ntrials' = n
          /\ fb_seed' = s
    /\ fb_num_beds' = 1
    /\ avg_wait_time' = NoneVal
    /\ tried' = <<>>
    /\ pc' = "fb_loop"
    /\ entry' = "find_number_of_booths" /\ err' = "none" /\ result' = NoneVal
    /\ UNCHANGED <<hospital, source, rng, simVars, faVars, first_run>>

\* a sweep that moves the starting seed along with the level
FbLevelShiftedSeed ==
    /\ pc = "fb_loop"
    /\ fb_num_beds <= max_num_beds
    /\ FindAvgEnter(fb_num_beds, fb_ntrials, fb_seed + fb_num_beds - 1)
    /\ UNCHANGED <<hospital, source, rng, entry, err, result, simVars, fbVars,
                   first_run>>

\* lines 263-265: next level of the sweep, same seed at every level
FbLevel ==
    /\ pc = "fb_loop"
    /\ fb_num_beds <= max_num_beds
    /\ FindAvgEnter(fb_num_beds, fb_ntrials, fb_seed)
    /\ UNCHANGED <<hospital, source, rng, entry, err, result, simVars, fbVars,
                   first_run>>

\* lines 266-268: return the level if it meets the target, else go on
FbTest ==
    /\ pc = "fb_test"
    /\ tried' = Append(tried, [num_beds |-> num_beds, ntrials |-> ntrials,
                               seed |-> seed0, wait |-> avg_wait_time])
    /\ IF MeetsTarget(avg_wait_time, target_wait_time)
       THEN /\ result' = <<fb_num_beds, avg_wait_time>>
            /\ pc' = "done"
            /\ UNCHANGED fb_num_beds
       ELSE /\ fb_num_beds' = fb_num_beds + 1
            /\ pc' = "fb_loop"
            /\ UNCHANGED result
    /\ UNCHANGED <<hospital, source, rng, entry, err, simVars, faVars,
                   target_wait_time, max_num_beds, fb_ntrials, fb_seed,
                   avg_wait_time, first_run>>

\* a sentinel that reports the last level tried
InfeasibleLastLevel == <<max_num_beds, NoneVal>>

\* line 270: the value returned when the target is infeasible
Infeasible == <<0, NoneVal>>

\* line 270: no level met the target
FbInfeasible ==
    /\ pc = "fb_loop"
    /\ fb_num_beds > max_num_beds
    /\ result' = Infeasible
    /\ pc' = "done"
    /\ UNCHANGED <<hospital, source, rng, entry, err, simVars, faVars, fbVars,
                   first_run>>

\* ------------------------------------------------------------------ client, between calls
\* the client has its answer (a value or an exception); the frames are gone
ClientContinue ==
    /\ Finished
    /\ pc' = "idle" /\ entry' = "none" /\ err' = "none" /\ result' = NoneVal
    /\ SimBlank /\ FaBlank /\ FbBlank
    /\ UNCHANGED <<hospital, source, rng, first_run>>

\* ------------------------------------------------------------------ specification
Next ==
    \/ CallSimulate
    \/ SimGenerate
    \/ SimNotFull
    \/ SimRemove
    \/ SimFullAssign
    \/ SimRecord
    \/ SimReturn
    \/ CallFindAvg
    \/ FaTrial
    \/ FaAverage
    \/ FaSort
    \/ FaReturn
    \/ CallFindBooths
    \/ FbLevel
    \/ FbTest
    \/ FbInfeasible
    \/ ClientContinue

Spec == Init /\ [][Next]_vars

\* single simulate runs, over every random stream
NextRun ==
    \/ CallSimulate
    \/ SimGenerate
    \/ SimNotFull
    \/ SimRemove
    \/ SimFullAssign
    \/ SimRecord
    \/ SimReturn
    \/ ClientContinue

SpecRun == InitRun /\ [][NextRun]_vars

\* simulate is sequential code: a run that has started keeps taking its steps
SimStep ==
    \/ SimGenerate
    \/ SimNotFull
    \/ SimRemove
    \/ SimFullAssign
    \/ SimRecord
    \/ SimReturn

SpecRunFair == SpecRun /\ WF_vars(SimStep)

\* ================================================================== claims
InFindBooths == entry = "find_number_of_booths"
InFindAvg    == entry \in {"find_avg_wait_time", "find_number_of_booths"}
Target       == target_wait_time * AvgScale

\* ------------------------------------------------------------------ C1
\* C1: find_number_of_booths calls find_avg_wait_time for num_beds = 1, 2, ... in
\* increasing order, always with its own ntrials and seed; a level whose median
\* average wait is strictly below the target ends the sweep and is returned with
\* that wait; so a returned n > 0 has w < target and every level below n had a
\* wait >= target, and (1, wait) is returned when level 1 is below the target.
C1_FirstLevelBelowTarget ==
    InFindBooths =>
        /\ \A k \in DOMAIN tried :
              /\ tried[k].num_beds = k
              /\ tried[k].ntrials = fb_ntrials
              /\ tried[k].seed = fb_seed
              /\ k <= max_num_beds
              /\ tried[k].wait < Target =>
                    /\ k = Len(tried)
                    /\ pc = "done"
                    /\ result = <<k, tried[k].wait>>
        /\ (pc = "done" /\ result[1] > 0) =>
              /\ result[1] = Len(tried)
              /\ result[2] = tried[result[1]].wait
              /\ result[2] < Target
              /\ \A m \in 1..(result[1] - 1) : tried[m].wait >= Target

\* a sweep that returned level 2 after level 1 missed a positive target
C1_Witness ==
    /\ InFindBooths /\ pc = "done"
    /\ result[1] = 2
    /\ target_wait_time > 0
    /\ tried[1].wait >= Target

\* ------------------------------------------------------------------ C2
\* C2 as stated: whenever find_number_of_booths has ended and no level tried had a
\* median average wait strictly below the target, it has returned (0, None) and
\* raised nothing.
\* (Stated for ordinary arguments: at least one trial, one voter, one hour.)
C2_AlwaysSentinel ==
    (/\ InFindBooths /\ Finished
     /\ fb_ntrials >= 1 /\ hospital.max_num_voters >= 1 /\ hospital.hours_open >= 1
     /\ \A k \in DOMAIN tried : tried[k].wait >= Target)
        => (pc = "done" /\ err = "none" /\ result = <<0, NoneVal>>)

\* C2 amended: when max_num_beds < 1, and when every find_avg_wait_time call of the
\* sweep returned a value and none was strictly below the target, the result is
\* (0, None) with no error after exactly max(max_num_beds, 0) levels; a target
\* <= 0 is never met; the only errors are those of find_avg_wait_time.
C2_SentinelWhenNoLevelFails ==
    (InFindBooths /\ Finished) =>
        /\ max_num_beds < 1 => (pc = "done" /\ result = <<0, NoneVal>>)
        /\ (pc = "done" /\ \A k \in DOMAIN tried : tried[k].wait >= Target) =>
              /\ err = "none"
              /\ result = <<0, NoneVal>>
              /\ Len(tried) = max_num_beds
        /\ (pc = "done" /\ target_wait_time <= 0) => result = <<0, NoneVal>>
        /\ pc = "raised" =>
              /\ err \in {"ZeroDivisionError", "IndexError"}
              /\ Len(tried) < max_num_beds

\* every level up to max_num_beds = 2 was tried and missed a positive target
C2_Witness ==
    /\ InFindBooths /\ pc = "done"
    /\ result = <<0, NoneVal>>
    /\ Len(tried) = 2
    /\ target_wait_time > 0

\* ------------------------------------------------------------------ C3
BeforeSort == pc \in {"fa_loop", "fa_avg", "sim_loop", "sim_check", "sim_full",
                      "sim_record"}
InSimulate == pc \in {"sim_loop", "sim_check", "sim_full", "sim_record"}

\* C3: trial k (from 0) of find_avg_wait_time runs with the generator reseeded to
\* the initial_seed argument plus k, the trials run in index order, and the
\* trial's average times the number of recorded voters is the sum of their
\* (start_time - arrival_time).
C3_TrialSeedsAndMeans ==
    InFindAvg =>
        /\ \A k \in DOMAIN trial_seeds : trial_seeds[k] = seed0 + (k - 1)
        /\ Len(trial_seeds) = Len(trial_lists)
        /\ (InSimulate \/ pc = "fa_avg") =>
              /\ seed = seed0 + trial
              /\ rng.seed = seed0 + trial
              /\ num_booths = num_beds
              /\ Len(trial_seeds) = trial
        /\ BeforeSort =>
              /\ Len(trial_averages) = trial
              /\ Len(trial_lists) = trial
              /\ \A k \in DOMAIN trial_averages :
                    trial_averages[k] * Len(trial_lists[k])
                        = AvgScale * SumSeq([j \in 1..Len(trial_lists[k]) |->
                              trial_lists[k][j].start_time
                                  - trial_lists[k][j].arrival_time])

\* two trials done from a nonzero initial seed, the second with a positive average
C3_Witness ==
    /\ InFindAvg /\ pc = "fa_loop"
    /\ seed0 = 1
    /\ Len(trial_seeds) = 2
    /\ trial_averages[2] > 0

\* ------------------------------------------------------------------ C4
\* the average of each trial, in trial order
PerTrial == [k \in DOMAIN trial_lists |-> AverageOneTrial(trial_lists[k]).value]

\* r has rank n \div 2 (0-based) among the per-trial averages
HasMedianRank(r) ==
    /\ \E k \in DOMAIN PerTrial : PerTrial[k] = r
    /\ Cardinality({k \in DOMAIN PerTrial : PerTrial[k] < r}) <= ntrials \div 2
    /\ Cardinality({k \in DOMAIN PerTrial : PerTrial[k] <= r}) >= (ntrials \div 2) + 1

\* C4: the value find_avg_wait_time returns is one of the per-trial averages, the
\* one at 0-based position ntrials \div 2 of their ascending order: the middle one
\* for odd ntrials, the upper-middle (larger) one for ntrials = 2.
C4_MedianIsUpperMiddle ==
    /\ (entry = "find_avg_wait_time" /\ pc = "done") =>
          /\ Len(trial_lists) = ntrials
          /\ HasMedianRank(result)
          /\ ntrials = 2 => (result >= PerTrial[1] /\ result >= PerTrial[2])
    /\ (InFindBooths /\ pc = "fb_test") =>
          /\ Len(trial_lists) = ntrials
          /\ HasMedianRank(avg_wait_time)
    /\ pc = "fa_return" =>
          \A k \in 1..(Len(trial_averages) - 1) :
              trial_averages[k] <= trial_averages[k + 1]

\* two trials whose averages differ, the larger one first, and the larger returned
C4_Witness ==
    /\ entry = "find_avg_wait_time" /\ pc = "done"
    /\ ntrials = 2
    /\ PerTrial[1] > PerTrial[2]
    /\ result = PerTrial[1]

\* ------------------------------------------------------------------ C5
\* C5: a trial whose run returned no voter makes find_avg_wait_time raise
\* ZeroDivisionError at once: in the step after the run, with no further trial
\* and no value returned.
C5_ZeroArrivalsRaise ==
    /\ [](InFindAvg =>
            /\ (\E k \in DOMAIN trial_lists : trial_lists[k] = <<>>) =>
                  (pc = "raised" /\ err = "ZeroDivisionError"
                     /\ trial_lists[Len(trial_lists)] = <<>>)
            /\ err = "ZeroDivisionError" => trial_lists[Len(trial_lists)] = <<>>)
    /\ [][(pc = "fa_avg" /\ patient_list = <<>>)
             => (pc' = "raised" /\ err' = "ZeroDivisionError")]_vars

\* the second trial of a precinct with voters saw all of them arrive after closing
C5_Witness ==
    /\ InFindAvg /\ pc = "raised" /\ err = "ZeroDivisionError"
    /\ Len(trial_lists) = 2
    /\ hospital.max_num_voters > 0
    /\ hospital.hours_open > 0

\* ------------------------------------------------------------------ C6
\* C6: at every point of every simulate run the booths hold at most num_booths
\* pending departure times.
C6_PoolWithinCapacity == Len(all_booths.items) <= num_booths

\* ------------------------------------------------------------------ C7
Finalized(v) ==
    /\ v.start_time >= v.arrival_time
    /\ v.departure_time = v.start_time + v.voting_duration

AllFinalized(l) == \A k \in DOMAIN l : Finalized(l[k])

\* the state right after a simulate run has returned
RunCompleted == pc = "fa_avg" \/ (pc = "done" /\ entry = "simulate")

\* C7: every voter of the list a simulate run builds and returns has
\* start_time >= arrival_time and departure_time = start_time + voting_duration,
\* so every wait and every trial average is >= 0.
C7_StartAfterArrival ==
    /\ AllFinalized(voter_list)
    /\ AllFinalized(patient_list)
    /\ (pc = "done" /\ entry = "simulate") => AllFinalized(result)
    /\ \A k \in DOMAIN trial_lists : AllFinalized(trial_lists[k])
    /\ \A k \in DOMAIN trial_averages : trial_averages[k] >= 0
    /\ \A k \in DOMAIN voter_list : Wait(voter_list[k]) >= 0

\* a returned list with a voter who waited and a voter who found the booths full
\* but arrived after the freed booth's departure
C7_Witness ==
    /\ RunCompleted
    /\ num_booths = 1
    /\ \E k \in DOMAIN voter_list :
          voter_list[k].start_time > voter_list[k].arrival_time
    /\ \E k \in 2..Len(voter_list) :
          /\ voter_list[k].start_time = voter_list[k].arrival_time
          /\ voter_list[k].arrival_time > voter_list[k - 1].departure_time

\* ------------------------------------------------------------------ C8
\* C8 as stated (for ordinary arguments: at least one trial, one voter, one hour):
\* with num_beds >= num_voters find_avg_wait_time returns 0.
C8_AlwaysReturnsZero ==
    (/\ entry = "find_avg_wait_time" /\ Finished
     /\ ntrials >= 1 /\ hospital.max_num_voters >= 1 /\ hospital.hours_open >= 1
     /\ num_beds >= hospital.max_num_voters)
        => (pc = "done" /\ result = 0)

\* C8 amended: with num_booths >= max_num_voters the booths-full branch of
\* simulate is never taken and every voter processed starts on arrival; every
\* trial average find_avg_wait_time computes is then 0 and the value it returns,
\* when it returns one, is 0 (it still raises ZeroDivisionError for a trial
\* without recorded voters and IndexError for ntrials = 0).
C8_NoWaitWithEnoughBooths ==
    /\ num_booths >= hospital.max_num_voters =>
          /\ pc # "sim_full"
          /\ pc = "sim_check" => ~check_full(all_booths)
          /\ \A k \in DOMAIN generated :
                generated[k].start_time = generated[k].arrival_time
          /\ pc = "sim_record" => new_voter.start_time = new_voter.arrival_time
    /\ (InFindAvg /\ num_beds >= hospital.max_num_voters) =>
          /\ \A k \in DOMAIN trial_averages : trial_averages[k] = 0
          /\ (pc = "done" /\ entry = "find_avg_wait_time") => result = 0
          /\ pc = "fb_test" => avg_wait_time = 0
          /\ pc = "raised" => err \in {"ZeroDivisionError", "IndexError"}

\* two trials of a precinct with as many booths as voters returned 0, with a
\* voter arriving while an earlier one was still in a booth
C8_Witness ==
    /\ entry = "find_avg_wait_time" /\ pc = "done"
    /\ result = 0
    /\ ntrials = 2
    /\ num_beds = 2 /\ hospital.max_num_voters = 2
    /\ Len(voter_list) = 2
    /\ voter_list[2].arrival_time < voter_list[1].departure_time

\* ------------------------------------------------------------------ C9
\* C9: a completed simulate run whose seed and num_booths are those of the first
\* completed run of the behaviour (same hospital) has built the same list, voter
\* by voter and field by field, whatever ran in between.
C9_SameArgumentsSameList ==
    (/\ RunCompleted
     /\ first_run # <<>>
     /\ first_run[1].seed = seed
     /\ first_run[1].num_booths = num_booths)
        => /\ Len(voter_list) = Len(first_run[1].voter_list)
           /\ \A k \in DOMAIN voter_list :
                 /\ voter_list[k].arrival_time = first_run[1].voter_list[k].arrival_time
                 /\ voter_list[k].voting_duration
                        = first_run[1].voter_list[k].voting_duration
                 /\ voter_list[k].start_time = first_run[1].voter_list[k].start_time
                 /\ voter_list[k].departure_time
                        = first_run[1].voter_list[k].departure_time

\* the second trial of a call repeats the arguments of the first run of the
\* behaviour, which an earlier call made, and a voter waited in it
C9_Witness ==
    /\ pc = "fa_avg" /\ trial = 1
    /\ first_run # <<>>
    /\ first_run[1].seed = seed /\ first_run[1].num_booths = num_booths
    /\ Len(voter_list) >= 2
    /\ \E k \in DOMAIN voter_list : Wait(voter_list[k]) > 0

\* ------------------------------------------------------------------ C10
\* the gap drawn for the k-th voter of the run with the current seed
GapOf(k) == source[seed][((k - 1) % Len(source[seed])) + 1][1]

\* The counting part of C10: the loop body runs at most max_num_voters times,
\* has run exactly that often when the run returns, and generates one voter
\* each time, each from the voter generated before it.
C10_Iterations ==
    /\ (InSimulate \/ RunCompleted) =>
          /\ Len(generated) = i
          /\ i <= hospital.max_num_voters
          /\ base_voter = IF i = 0 THEN Patient(0, 0) ELSE generated[i]
          /\ \A k \in DOMAIN generated :
                generated[k].arrival_time =
                    (IF k = 1 THEN 0 ELSE generated[k - 1].arrival_time) + GapOf(k)
          /\ pc \in {"sim_check", "sim_full", "sim_record"} =>
                /\ i < hospital.max_num_voters
                /\ new_voter.arrival_time = base_voter.arrival_time + GapOf(i + 1)
    /\ RunCompleted =>
          /\ i = hospital.max_num_voters
          /\ Len(generated) = hospital.max_num_voters

\* C10: a simulate run that has started always returns, and it returns after
\* going through the loop body max_num_voters times, neither more nor fewer,
\* generating one voter each time, also after a voter has arrived past
\* hours_open * 60; each voter generated, recorded or not, is the base of the
\* next one (arrival_time = previous arrival_time + gap).
C10_ExactlyMaxVotersIterations ==
    /\ []C10_Iterations
    /\ (InSimulate ~> RunCompleted)

\* a completed run in which a voter arrived after closing time and another voter
\* was generated from it
C10_Witness ==
    /\ RunCompleted
    /\ Len(generated) = 3
    /\ generated[2].arrival_time > Window(hospital)
    /\ Len(voter_list) = 1
    /\ generated[3].arrival_time > generated[2].arrival_time

\* ------------------------------------------------------------------ C11
\* the voters of l that arrived by closing time, in the order of l
RECURSIVE ArrivedByClosing(_)
ArrivedByClosing(l) ==
    IF l = <<>> THEN <<>>
    ELSE IF Head(l).arrival_time <= 60 * hospital.hours_open
         THEN <<Head(l)>> \o ArrivedByClosing(Tail(l))
         ELSE ArrivedByClosing(Tail(l))

\* C11: the list simulate builds and returns is the sequence of the voters
\* generated so far with arrival_time <= hours_open * 60: each of them once, in
\* generation order, none of the later arrivals, and each with start_time and
\* departure_time assigned.
C11_ReturnedListIsWindow ==
    /\ (pc = "sim_loop" \/ RunCompleted) =>
          voter_list = ArrivedByClosing(generated)
    /\ pc \in {"sim_check", "sim_full", "sim_record"} =>
          voter_list = ArrivedByClosing(generated)
    /\ \A k \in DOMAIN voter_list :
          /\ voter_list[k].start_time # NoneVal
          /\ voter_list[k].departure_time # NoneVal
          /\ voter_list[k].arrival_time <= 60 * hospital.hours_open
    /\ (pc = "done" /\ entry = "simulate") => result = ArrivedByClosing(generated)

\* a returned list whose last voter arrived at the closing minute itself, with a
\* later voter generated and left out
C11_Witness ==
    /\ pc = "done" /\ entry = "simulate"
    /\ hospital.hours_open = 1
    /\ Len(generated) = 3
    /\ Len(result) = 2
    /\ result[2].arrival_time = 60
    /\ generated[3].arrival_time > 60

\* ------------------------------------------------------------------ C12
\* average * len = AvgScale * sum of (start_time - arrival_time), for a list l
IsAverageWaitOf(avg, l) ==
    /\ Len(l) > 0
    /\ avg * Len(l) = AvgScale * SumSeq([k \in 1..Len(l) |->
                                           l[k].start_time - l[k].arrival_time])

\* the value a find_avg_wait_time call has just returned, NoneVal if none
Returned ==
    IF pc = "done" /\ entry = "find_avg_wait_time" THEN result
    ELSE IF pc = "fb_test" THEN avg_wait_time
    ELSE NoneVal

\* C12: a find_avg_wait_time call with ntrials = 1 that returns made exactly one
\* simulate run, with seed initial_seed and num_booths num_beds, and returns the
\* average wait of the list of that run; it is also the average wait of the
\* first run of the behaviour when that run had the same seed and num_booths.
C12_OneTrialIsOneRun ==
    (ntrials = 1 /\ Returned # NoneVal) =>
        /\ Len(trial_lists) = 1
        /\ seed = seed0 /\ num_booths = num_beds
        /\ Len(generated) = hospital.max_num_voters
        /\ IsAverageWaitOf(Returned, voter_list)
        /\ (/\ first_run # <<>>
            /\ first_run[1].seed = seed0
            /\ first_run[1].num_booths = num_beds)
              => IsAverageWaitOf(Returned, first_run[1].voter_list)

\* level 2 of a one-trial sweep returned a positive average that is the average
\* of a run with 2 booths made by an earlier call (the sweep's own first run
\* had 1 booth)
C12_Witness ==
    /\ InFindBooths /\ pc = "fb_test"
    /\ ntrials = 1 /\ num_beds = 2
    /\ avg_wait_time > 0
    /\ first_run # <<>>
    /\ first_run[1].seed = seed0
    /\ first_run[1].num_booths = 2

\* ------------------------------------------------------------------ C13
\* the number of pending departures equal to x
Pending(b, x) == Cardinality({k \in DOMAIN b.items : b.items[k] = x})

PendingTimes(b) == {b.items[k] : k \in DOMAIN b.items}

\* the earliest pending departure of a non-empty pool
EarliestPending(b) ==
    CHOOSE d \in PendingTimes(b) : \A e \in PendingTimes(b) : d <= e

LaterOf(a, b) == IF a >= b THEN a ELSE b

\* C13 as a step property: from a full pool the step of simulate takes the minimum
\* pending departure d out (one occurrence, nothing else changes); the next
\* step sets start_time to the later of arrival_time and d, departure_time to
\* start_time + voting_duration, and puts that departure_time in the pool.
C13_FullBranchStep ==
    /\ (pc = "sim_check" /\ check_full(all_booths)) =>
          /\ pc' = "sim_full"
          /\ min_departure_time' = EarliestPending(all_booths)
          /\ \A x \in PendingTimes(all_booths) :
                Pending(all_booths', x) =
                   Pending(all_booths, x) - (IF x = min_departure_time' THEN 1 ELSE 0)
          /\ PendingTimes(all_booths') \subseteq PendingTimes(all_booths)
    /\ pc = "sim_full" =>
          /\ pc' = "sim_record"
          /\ min_departure_time' = min_departure_time
          /\ new_voter'.arrival_time = new_voter.arrival_time
          /\ new_voter'.voting_duration = new_voter.voting_duration
          /\ new_voter'.start_time =
                LaterOf(new_voter.arrival_time, min_departure_time)
          /\ new_voter'.departure_time =
                new_voter'.start_time + new_voter.voting_duration
          /\ \A x \in PendingTimes(all_booths) \cup {new_voter'.departure_time} :
                Pending(all_booths', x) =
                   Pending(all_booths, x)
                     + (IF x = new_voter'.departure_time THEN 1 ELSE 0)

\* C13: when the pool is full, simulate removes the minimum pending departure d,
\* sets start_time = max(arrival_time, d) and inserts
\* departure_time = start_time + voting_duration.
C13_FullBranch == [][C13_FullBranchStep]_vars

\* with 2 booths the third voter found the pool full; the departure taken out
\* is the earlier of two different pending ones and not the one inserted first,
\* the other one is still pending next to the voter's own departure
C13_Witness ==
    /\ pc = "sim_record" /\ num_booths = 2 /\ i = 2
    /\ min_departure_time = generated[2].departure_time
    /\ generated[1].departure_time > generated[2].departure_time
    /\ new_voter.start_time = new_voter.arrival_time
    /\ new_voter.start_time > min_departure_time
    /\ new_voter.voting_duration > 0
    /\ Pending(all_booths, generated[1].departure_time) >= 1
    /\ Pending(all_booths, new_voter.departure_time) >= 1

\* ------------------------------------------------------------------ C14
\* C14: no run of simulate raises queue.Full or queue.Empty: the pool is never
\* empty when simulate removes from it and never full when simulate inserts.
C14_NoPoolError ==
    /\ err \notin {"Full", "Empty"}
    /\ (pc = "sim_check" /\ check_full(all_booths)) => all_booths.items # <<>>
    /\ (pc = "sim_check" /\ ~check_full(all_booths)) =>
          add_voter_dep(all_booths, 0).raised = "none"
    /\ pc = "sim_full" =>
          /\ ~check_full(all_booths)
          /\ add_voter_dep(all_booths, 0).raised = "none"

\* a run that has gone through the pool-full branch (a removal and then an
\* insertion) and through the not-full branch without an error
C14_Witness ==
    /\ pc = "sim_record" /\ err = "none"
    /\ num_booths >= 1 /\ i >= num_booths
    /\ check_full(all_booths)
    /\ new_voter.departure_time # NoneVal

\* ------------------------------------------------------------------ C15
\* C15 as stated: during a run check_full() is true iff the number of pending
\* departures equals the capacity the pool was constructed with (num_booths),
\* and the pool's capacity stays the one it was constructed with.
C15_FullIffAtCapacity ==
    InSimulate =>
        /\ all_booths.maxsize = num_booths
        /\ check_full(all_booths) <=> (Len(all_booths.items) = num_booths)

\* ------------------------------------------------------------------ C16
\* C16: the arrival times of the voters generated in one run never decrease:
\* each is the arrival time of the voter generated before it (0 for the first,
\* from the zero-valued base voter) plus the gap drawn for it, and no gap is
\* negative. The voter of the current iteration is included.
C16_ArrivalsNonDecreasing ==
    (InSimulate \/ RunCompleted) =>
        /\ \A k \in DOMAIN generated : GapOf(k) >= 0
        /\ generated # <<>> => generated[1].arrival_time = GapOf(1)
        /\ \A k \in 2..Len(generated) :
              /\ generated[k].arrival_time >= generated[k - 1].arrival_time
              /\ generated[k].arrival_time - generated[k - 1].arrival_time = GapOf(k)
        /\ pc \in {"sim_check", "sim_full", "sim_record"} =>
              /\ new_voter.arrival_time >= base_voter.arrival_time
              /\ new_voter.arrival_time - base_voter.arrival_time
                    = GapOf(Len(generated) + 1)
              /\ generated = <<>> => base_voter.arrival_time = 0

\* a completed run of three voters with a large gap followed by a smaller one
\* and a zero gap: arrival times 90, 120, 120
C16_Witness ==
    /\ RunCompleted
    /\ Len(generated) = 3
    /\ generated[1].arrival_time = 90
    /\ generated[2].arrival_time = 120
    /\ generated[3].arrival_time = 120

\* ------------------------------------------------------------------ C17
\* the voters that have their start and departure assigned so far
Processed ==
    IF pc = "sim_record" THEN Append(generated, new_voter) ELSE generated

\* the processed voters in service at time t
InService(t) ==
    {k \in DOMAIN Processed :
        Processed[k].start_time <= t /\ t < Processed[k].departure_time}

\* the times at which the number of voters in service can change
EventTimes ==
    {Processed[k].start_time : k \in DOMAIN Processed}
       \cup {Processed[k].departure_time : k \in DOMAIN Processed}

\* C17: with num_booths >= 1, at no time t are more than num_booths of the
\* voters processed so far in service (start_time <= t < departure_time). The
\* number in service is constant between two event times, so the event times
\* and the times one minute before them stand for every t.
C17_AtMostNumBoothsInService ==
    ((InSimulate \/ RunCompleted) /\ num_booths >= 1) =>
        \A t \in EventTimes \cup {u - 1 : u \in EventTimes} :
            Cardinality(InService(t)) <= num_booths

\* three voters and 2 booths: two in service at the same time, the third waits
\* for the first departure
C17_Witness ==
    /\ RunCompleted /\ num_booths = 2
    /\ Len(generated) = 3
    /\ Cardinality(InService(generated[1].start_time)) = 2
    /\ generated[3].start_time > generated[3].arrival_time
    /\ generated[3].departure_time > generated[3].start_time

\* ------------------------------------------------------------------ C18
\* the voting_duration drawn for the k-th voter of the run with the current seed
DurationOf(k) == source[seed][((k - 1) % Len(source[seed])) + 1][2]

\* the list l of a run with nl booths against the list m of a run with nm
\* booths: the same voters, and no later start with more booths
SamePopulationNoLaterStart(l, nl, m, nm) ==
    /\ Len(l) = Len(m)
    /\ \A k \in DOMAIN l :
          /\ k \in DOMAIN m
          /\ l[k].arrival_time = m[k].arrival_time
          /\ l[k].voting_duration = m[k].voting_duration
          /\ nl >= nm => l[k].start_time <= m[k].start_time
          /\ nl <= nm => l[k].start_time >= m[k].start_time

\* C18: the arrival times and voting durations generated in a run are those of
\* the seed's stream, whatever num_booths is; a completed run with
\* num_booths >= 1 records the same voters as the first run made with the same
\* seed and another num_booths >= 1, none of them starting later with more
\* booths; and the averages find_number_of_booths got from find_avg_wait_time
\* at its successive levels (same seed and ntrials) never increase.
C18_MoreBoothsNoMoreWait ==
    /\ (InSimulate \/ RunCompleted) =>
          \A k \in DOMAIN generated :
             /\ generated[k].voting_duration = DurationOf(k)
             /\ generated[k].arrival_time =
                   SumSeq([j \in 1..k |-> GapOf(j)])
    /\ (/\ RunCompleted /\ num_booths >= 1
        /\ first_run # <<>>
        /\ first_run[1].seed = seed /\ first_run[1].num_booths >= 1) =>
          SamePopulationNoLaterStart(voter_list, num_booths,
                                     first_run[1].voter_list, first_run[1].num_booths)
    /\ \A k \in DOMAIN tried :
          /\ tried[k].num_beds = k
          /\ tried[k].seed = fb_seed /\ tried[k].ntrials = fb_ntrials
          /\ k > 1 => tried[k].wait <= tried[k - 1].wait

\* a sweep whose level 2 gave a smaller, still positive, average than level 1
C18_Witness ==
    /\ InFindBooths
    /\ Len(tried) = 2
    /\ tried[2].wait < tried[1].wait
    /\ tried[2].wait > 0

\* ------------------------------------------------------------------ C19
\* the pool has been full in this run and a departure has been taken out of it
RemovedOnce ==
    /\ num_booths >= 1
    /\ \/ pc \in {"sim_full", "sim_record"} /\ i >= num_booths
       \/ (pc \in {"sim_loop", "sim_check"} \/ RunCompleted) /\ i > num_booths

\* first come, first served: no voter processed so far started before a voter
\* generated before it; and whenever the pool is full again after a removal,
\* its earliest pending departure is not before the one removed
C19_State ==
    (InSimulate \/ RunCompleted) =>
        /\ \A k \in 2..Len(Processed) :
              Processed[k].start_time >= Processed[k - 1].start_time
        /\ (RemovedOnce /\ pc # "sim_full") =>
              /\ check_full(all_booths)
              /\ min_departure_time # NoneVal
              /\ EarliestPending(all_booths) >= min_departure_time

\* from one full pool to the next: the departure taken out of a full pool is its
\* earliest one and is not before the one taken out previously, and a step
\* between two full pools does not lower the earliest pending departure (the
\* pool is one short, and empty with one booth, only between a removal and the
\* insertion that follows it)
C19_Step ==
    (InSimulate /\ num_booths >= 1) =>
        /\ (pc = "sim_check" /\ check_full(all_booths)) =>
              /\ min_departure_time' = EarliestPending(all_booths)
              /\ RemovedOnce => min_departure_time' >= min_departure_time
        /\ (check_full(all_booths) /\ check_full(all_booths')) =>
              EarliestPending(all_booths') >= EarliestPending(all_booths)

\* C19: within one run start_time is non-decreasing in generation order, and
\* once the pool is full the minimum pending departure time of the full pool
\* never decreases from one iteration to the next.
C19_FirstComeFirstServed == [](C19_State) /\ [][C19_Step]_vars

\* one booth, three voters: the second and the third both wait, the third for
\* a later departure than the second
C19_Witness ==
    /\ RunCompleted /\ num_booths = 1 /\ Len(generated) = 3
    /\ generated[2].start_time > generated[2].arrival_time
    /\ generated[3].start_time > generated[3].arrival_time
    /\ generated[3].start_time > generated[2].start_time
    /\ min_departure_time = generated[2].departure_time
    /\ min_departure_time > generated[1].departure_time

\* ------------------------------------------------------------------ C20
Occupancy == Len(all_booths.items)

SmallerOf(a, b) == IF a <= b THEN a ELSE b

\* after i iterations the pool holds min(i, num_booths) departures; inside an
\* iteration it holds one less between the removal and the insertion, and the
\* iteration's own departure once that is inserted
C20_State ==
    ((InSimulate \/ RunCompleted) /\ num_booths >= 1) =>
        /\ (pc \in {"sim_loop", "sim_check"} \/ RunCompleted) =>
              Occupancy = SmallerOf(i, num_booths)
        /\ pc = "sim_full" => i >= num_booths /\ Occupancy = num_booths - 1
        /\ pc = "sim_record" => Occupancy = SmallerOf(i + 1, num_booths)
        /\ (pc = "sim_check" /\ i >= num_booths) => check_full(all_booths)

\* a step of the run takes an entry out only from a full pool at the start of
\* an iteration, the step after it puts one in, and a pool that is full between
\* iterations is full whenever the run is between or at the start of iterations
C20_Step ==
    (InSimulate /\ num_booths >= 1) =>
        /\ Len(all_booths'.items) < Occupancy =>
              /\ pc = "sim_check" /\ check_full(all_booths)
              /\ pc' = "sim_full"
              /\ Len(all_booths'.items) = Occupancy - 1
        /\ pc = "sim_full" =>
              /\ pc' = "sim_record"
              /\ Len(all_booths'.items) = Occupancy + 1
        /\ (check_full(all_booths) /\ pc' \in {"sim_loop", "sim_check", "sim_record"}) =>
              check_full(all_booths')

\* C20: for num_booths >= 1 the pool holds exactly min(i, num_booths) pending
\* departures after the i-th iteration; entries are removed only in the
\* pool-full branch, each removal is immediately followed by one insertion,
\* and a pool that is full stays full at the start of every later iteration.
C20_PoolOccupancy == [](C20_State) /\ [][C20_Step]_vars

\* 2 booths, three iterations done: the pool filled in two iterations, the
\* third removed one departure and inserted one
C20_Witness ==
    /\ pc = "sim_loop" /\ num_booths = 2 /\ i = 3
    /\ Occupancy = 2
    /\ min_departure_time # NoneVal
    /\ generated[3].departure_time \in PendingTimes(all_booths)

====
